---------------------------- MODULE Spec2Model ----------------------------
(***************************************************************************)
(* Bookstore inventory web application (src/app.py): the Flask route       *)
(* handlers of create_app() over the db.books collection.                  *)
(*                                                                         *)
(* Texts (form values, query-string values, stored titles ...) are         *)
(* sequences of one-character strings, so that parsing, letter case and    *)
(* pattern matching are computed character by character.  A form or a      *)
(* query string is a function whose domain is the set of fields the        *)
(* request carries: request.form.get(k) is None exactly when k is not in   *)
(* that domain.                                                            *)
(***************************************************************************)
EXTENDS Integers, Sequences, FiniteSets, TLC

\* Number of ObjectIds the driver hands out before add is no longer offered.
MaxIds == 2

VARIABLES
    books,     \* db.books: ObjectId -> document
    nextId,    \* the next ObjectId insert_one generates
    clock,     \* datetime.datetime.utcnow(), in ticks since midnight of Today
    req,       \* the request handled last
    resp,      \* the response it got
    pre,       \* db.books as it was when that request arrived
    pc,        \* single-request specification: "ready" or "done"
    inflight,  \* concurrent specification: worker -> the request it is handling
    added,     \* concurrent specification: ObjectIds insert_one has created
    removed    \* concurrent specification: ObjectIds delete_one has removed

vars == <<books, nextId, clock, req, resp, pre, pc, inflight, added, removed>>

---------------------------------------------------------------------------
(* Characters and texts *)

UpperCase == <<"A","B","C","D","E","F","G","H","I","J","K","L","M",
               "N","O","P","Q","R","S","T","U","V","W","X","Y","Z">>

LowerCase == <<"a","b","c","d","e","f","g","h","i","j","k","l","m",
               "n","o","p","q","r","s","t","u","v","w","x","y","z">>

DigitChars == <<"0","1","2","3","4","5","6","7","8","9">>

Lower(c) ==
    IF \E i \in DOMAIN UpperCase : UpperCase[i] = c
    THEN LowerCase[CHOOSE i \in DOMAIN UpperCase : UpperCase[i] = c]
    ELSE c

LowerText(s) == [i \in 1..Len(s) |-> Lower(s[i])]

IsDigit(c) == \E i \in DOMAIN DigitChars : DigitChars[i] = c

DigitVal(c) == (CHOOSE i \in DOMAIN DigitChars : DigitChars[i] = c) - 1

AllDigits(s) == \A i \in 1..Len(s) : IsDigit(s[i])

RECURSIVE DigitsVal(_)
DigitsVal(s) ==
    IF Len(s) = 0 THEN 0
    ELSE 10 * DigitsVal(SubSeq(s, 1, Len(s) - 1)) + DigitVal(s[Len(s)])

RECURSIVE Pow10(_)
Pow10(n) == IF n = 0 THEN 1 ELSE 10 * Pow10(n - 1)

\* str.strip(): leading and trailing blanks removed (float() and int() both
\* ignore surrounding whitespace).
RECURSIVE LStrip(_)
LStrip(s) == IF Len(s) > 0 /\ s[1] = " " THEN LStrip(Tail(s)) ELSE s

RECURSIVE RStrip(_)
RStrip(s) ==
    IF Len(s) > 0 /\ s[Len(s)] = " " THEN RStrip(SubSeq(s, 1, Len(s) - 1)) ELSE s

Strip(s) == RStrip(LStrip(s))

---------------------------------------------------------------------------
(* Numbers *)

\* A float is NaN, an infinity, or a finite decimal n / 10^e kept in lowest
\* terms of e, so that "15.50" and "15.5" are the same number.
NaN == [kind |-> "nan", n |-> 0, e |-> 0]

PosInf == [kind |-> "inf", n |-> 1, e |-> 0]

NegInf == [kind |-> "inf", n |-> -1, e |-> 0]

RECURSIVE Normal(_, _)
Normal(n, e) ==
    IF e > 0 /\ n % 10 = 0 THEN Normal(n \div 10, e - 1)
    ELSE [kind |-> "fin", n |-> n, e |-> e]

\* The outcome of a conversion: a value, or the exception it raises.
Value(v) == [ok |-> TRUE, val |-> v, exc |-> "none"]

Raise(name) == [ok |-> FALSE, val |-> 0, exc |-> name]

\* Sign and magnitude of a stripped numeric text.
SignOf(t) == IF Len(t) > 0 /\ t[1] = "-" THEN -1 ELSE 1

Unsigned(t) == IF Len(t) > 0 /\ (t[1] = "-" \/ t[1] = "+") THEN Tail(t) ELSE t

DotAt(t) == {i \in 1..Len(t) : t[i] = "."}

\* float(text) for the decimal, "nan", "inf" and "infinity" forms (exponent
\* and underscore forms are not among the texts the specifications submit).
FloatOfText(s) ==
    LET t == Strip(s)
        u == LowerText(Unsigned(t))
        dots == DotAt(u)
    IN  IF u = <<"n","a","n">> THEN Value(NaN)
        ELSE IF u = <<"i","n","f">> \/ u = <<"i","n","f","i","n","i","t","y">>
             THEN Value(IF SignOf(t) < 0 THEN NegInf ELSE PosInf)
        ELSE IF Cardinality(dots) > 1 THEN Raise("ValueError")
        ELSE LET d == IF dots = {} THEN Len(u) + 1 ELSE CHOOSE i \in dots : TRUE
                 ip == SubSeq(u, 1, d - 1)
                 fp == SubSeq(u, d + 1, Len(u))
             IN  IF Len(ip) + Len(fp) = 0 \/ ~AllDigits(ip) \/ ~AllDigits(fp)
                 THEN Raise("ValueError")
                 ELSE Value(Normal(SignOf(t) * (DigitsVal(ip) * Pow10(Len(fp))
                                                + DigitsVal(fp)),
                                   Len(fp)))

\* int(text): an optionally signed run of digits, nothing else.
IntOfText(s) ==
    LET t == Strip(s)
        u == Unsigned(t)
    IN  IF Len(u) = 0 \/ ~AllDigits(u) THEN Raise("ValueError")
        ELSE Value(SignOf(t) * DigitsVal(u))

\* float(request.form.get(k)) and int(request.form.get(k)): None is not a
\* text, and the conversion of None raises TypeError, not ValueError.
PyFloat(form, k) ==
    IF k \notin DOMAIN form THEN Raise("TypeError") ELSE FloatOfText(form[k])

PyInt(form, k) ==
    IF k \notin DOMAIN form THEN Raise("TypeError") ELSE IntOfText(form[k])

\* Python's  x <= 0  on a float: False for NaN.
FloatLeqZero(x) == x.kind # "nan" /\ x.n <= 0

\* x > 0 on a float: False for NaN.
FloatPositive(x) == x.kind # "nan" /\ x.n > 0

\* a <= b on floats: False when either is NaN.
FloatLeq(a, b) ==
    IF a.kind = "nan" \/ b.kind = "nan" THEN FALSE
    ELSE IF a.kind = "inf" THEN a.n < 0 \/ a = b
    ELSE IF b.kind = "inf" THEN b.n > 0
    ELSE a.n * Pow10(b.e) <= b.n * Pow10(a.e)

\* Python truthiness of request.form.get(k): None and "" are falsy.
Falsy(form, k) == k \notin DOMAIN form \/ form[k] = <<>>

---------------------------------------------------------------------------
(* Dates *)

\* The calendar day on which the model's clock runs.
Today == <<2024, 1, 1>>

\* A datetime: a calendar day and the ticks elapsed since its midnight.
DateTime(day, tick) == [day |-> day, tick |-> tick]

\* datetime.datetime.utcnow()
utcnow(now) == DateTime(Today, now)

IsLeap(y) == (y % 4 = 0 /\ y % 100 # 0) \/ y % 400 = 0

DaysIn(y, m) ==
    IF m = 2 THEN (IF IsLeap(y) THEN 29 ELSE 28)
    ELSE IF m \in {4, 6, 9, 11} THEN 30 ELSE 31

DashAt(s) == {i \in 1..Len(s) : s[i] = "-"}

\* datetime.datetime.strptime(text, "%Y-%m-%d"): four digits, one or two
\* digits, one or two digits, separated by "-", naming a day that exists;
\* the result is that day's midnight.
strptime(s) ==
    LET dashes == DashAt(s)
    IN  IF Cardinality(dashes) # 2 THEN Raise("ValueError")
        ELSE LET d1 == CHOOSE i \in dashes : \A j \in dashes : i <= j
                 d2 == CHOOSE i \in dashes : \A j \in dashes : i >= j
                 ys == SubSeq(s, 1, d1 - 1)
                 ms == SubSeq(s, d1 + 1, d2 - 1)
                 ds == SubSeq(s, d2 + 1, Len(s))
             IN  IF \/ Len(ys) # 4 \/ Len(ms) \notin {1, 2} \/ Len(ds) \notin {1, 2}
                    \/ ~AllDigits(ys) \/ ~AllDigits(ms) \/ ~AllDigits(ds)
                 THEN Raise("ValueError")
                 ELSE LET y == DigitsVal(ys)
                          m == DigitsVal(ms)
                          d == DigitsVal(ds)
                      IN  IF y < 1 \/ m \notin 1..12 \/ d < 1 \/ d > DaysIn(y, m)
                          THEN Raise("ValueError")
                          ELSE Value(DateTime(<<y, m, d>>, 0))

---------------------------------------------------------------------------
(* The document store: db.books *)

\* A pattern character matches a text character: "." matches any character,
\* a letter matches itself in either case ($options: 'i').
CharMatches(p, c) == p = "." \/ Lower(p) = Lower(c)

\* {'$regex': pattern, '$options': 'i'}: the pattern matches somewhere in
\* the text.  Patterns are runs of literal characters and "." .
RegexSearch(pattern, text) ==
    \E o \in 0..(Len(text) - Len(pattern)) :
        \A i \in 1..Len(pattern) : CharMatches(pattern[i], text[o + i])

\* One condition of a filter applied to one field of a document.
CondHolds(cond, x) ==
    CASE cond.op = "regex" -> RegexSearch(cond.arg, x)
      [] cond.op = "lte"   -> FloatLeq(x, cond.arg)
      [] cond.op = "eq"    -> x = cond.arg

\* A document matches a filter when it meets every condition of the filter.
Matches(doc, query) == \A k \in DOMAIN query : CondHolds(query[k], doc[k])

\* db.books.find(query): the matching documents, by ObjectId.
Find(db, query) ==
    LET hit == {i \in DOMAIN db : Matches(db[i], query)}
    IN  [i \in hit |-> db[i]]

\* db.books.find({}, {"title": 1, "quantity": 1})
FindProjected(db) ==
    [i \in DOMAIN db |-> [title |-> db[i].title, quantity |-> db[i].quantity]]

\* db.books.find_one({"_id": oid}): the document, or None.
FindOne(db, oid) == IF oid \in DOMAIN db THEN <<db[oid]>> ELSE <<>>

\* db.books.insert_one(doc), the driver having generated oid for it.
InsertOne(db, oid, doc) ==
    [i \in DOMAIN db \cup {oid} |-> IF i = oid THEN doc ELSE db[i]]

\* A delete that drops the filter: delete_many({}).
DeleteEvery(db, oid) == [i \in {} |-> db[i]]

\* db.books.delete_one({"_id": oid})
DeleteOne(db, oid) == [i \in DOMAIN db \ {oid} |-> db[i]]

\* An update that drops the filter: update_many({}, {"$set": ...}).
UpdateEvery(db, oid, field, value) ==
    [i \in DOMAIN db |-> [db[i] EXCEPT ![field] = value]]

\* An update that inserts when nothing matches: upsert=True.
UpdateUpsert(db, oid, field, value) ==
    IF oid \in DOMAIN db THEN [db EXCEPT ![oid][field] = value]
    ELSE [i \in DOMAIN db \cup {oid} |->
            IF i = oid THEN [x \in {field} |-> value] ELSE db[i]]

\* db.books.update_one({"_id": oid}, {"$set": {field: value}}): no upsert.
UpdateOne(db, oid, field, value) ==
    IF oid \in DOMAIN db THEN [db EXCEPT ![oid][field] = value] ELSE db

\* ObjectId(book_id): the identifier a well-formed path segment names;
\* anything else raises InvalidId.
ObjectId(book_id) ==
    IF book_id.hex THEN Value(book_id.n) ELSE Raise("InvalidId")

\* The store calls a handler can issue.
NoCall == [op |-> "none"]

\* The effect of a call on the collection.
DbApply(db, call, oid) ==
    CASE call.op = "insert_one" -> InsertOne(db, oid, call.doc)
      [] call.op = "delete_one" -> DeleteOne(db, call.oid)
      [] call.op = "update_one" -> UpdateOne(db, call.oid, call.field, call.value)
      [] OTHER -> db

\* What a call returns to the handler.
DbResult(db, call) ==
    CASE call.op = "find" -> Find(db, call.query)
      [] call.op = "find_projected" -> FindProjected(db)
      [] call.op = "find_one" -> FindOne(db, call.oid)
      [] OTHER -> <<>>

---------------------------------------------------------------------------
(* Responses *)

\* return "message", 400
BadRequest(msg) == [status |-> 400, kind |-> "text", what |-> msg, data |-> <<>>]

\* An exception no handler catches: Flask answers 500.
ServerError(exc) == [status |-> 500, kind |-> "error", what |-> exc, data |-> <<>>]

\* redirect(url_for(endpoint, **args))
Redirect(endpoint, args) ==
    [status |-> 302, kind |-> "redirect", what |-> endpoint, data |-> args]

\* render_template(template, ...): the data is filled in from the store's
\* answer when the handler finishes.
Render(template) ==
    [status |-> 200, kind |-> "render", what |-> template, data |-> <<>>]

\* What a handler does: the one store call it issues (or none) and the
\* response it returns.
Plan(call, response) == [call |-> call, resp |-> response]

---------------------------------------------------------------------------
(* The route handlers of create_app() *)

\* GET /home
home == Plan(NoCall, Render("home.html"))

\* The filter search() builds from the query string: one condition per
\* parameter that is present and not empty.
SearchKeys(args) ==
    {k \in {"title", "author", "genre", "date_added", "price"} : ~Falsy(args, k)}

SearchQuery(args) ==
    [k \in SearchKeys(args) |->
        CASE k \in {"title", "author", "genre"} -> [op |-> "regex", arg |-> args[k]]
          [] k = "date_added" -> [op |-> "eq", arg |-> strptime(args[k]).val]
          [] k = "price" -> [op |-> "lte", arg |-> FloatOfText(args[k]).val]]

\* A search that always queries: an empty filter matches every document.
search_unguarded(args) ==
    IF ~Falsy(args, "date_added") /\ ~strptime(args["date_added"]).ok
    THEN Plan(NoCall, BadRequest("Invalid date format. Please use YYYY-MM-DD."))
    ELSE IF ~Falsy(args, "price") /\ ~FloatOfText(args["price"]).ok
    THEN Plan(NoCall,
              BadRequest("Invalid price format. Please enter a valid number."))
    ELSE Plan([op |-> "find", query |-> SearchQuery(args)], Render("search.html"))

\* GET /search
search(args) ==
    IF ~Falsy(args, "date_added") /\ ~strptime(args["date_added"]).ok
    THEN Plan(NoCall, BadRequest("Invalid date format. Please use YYYY-MM-DD."))
    ELSE IF ~Falsy(args, "price") /\ ~FloatOfText(args["price"]).ok
    THEN Plan(NoCall,
              BadRequest("Invalid price format. Please enter a valid number."))
    ELSE IF SearchKeys(args) # {}
    THEN Plan([op |-> "find", query |-> SearchQuery(args)], Render("search.html"))
    ELSE Plan(NoCall, Render("search.html"))

\* POST /delete/<book_id>
delete(book_id) ==
    IF ~ObjectId(book_id).ok THEN Plan(NoCall, ServerError(ObjectId(book_id).exc))
    ELSE Plan([op |-> "delete_one", oid |-> ObjectId(book_id).val],
              Redirect("home", <<>>))

\* A document with two of its text fields crossed over.
nbook_crossed(form, price, quantity, date_added) ==
    [title      |-> form["title"],
     author     |-> form["genre"],
     genre      |-> form["author"],
     price      |-> price,
     quantity   |-> quantity,
     date_added |-> date_added]

\* The document add() inserts.
nbook(form, price, quantity, date_added) ==
    [title      |-> form["title"],
     author     |-> form["author"],
     genre      |-> form["genre"],
     price      |-> price,
     quantity   |-> quantity,
     date_added |-> date_added]

\* An add whose sign check lets zero through (< for <=).
add_zero_allowed(form, now) ==
    IF \/ Falsy(form, "title") \/ Falsy(form, "author") \/ Falsy(form, "genre")
       \/ Falsy(form, "price") \/ Falsy(form, "quantity")
    THEN Plan(NoCall, BadRequest("All fields are required."))
    ELSE LET price == PyFloat(form, "price")
             quantity == PyInt(form, "quantity")
         IN  IF ~price.ok \/ ~quantity.ok
             THEN Plan(NoCall, BadRequest("Price and quantity must be numbers."))
             ELSE IF (price.val.kind # "nan" /\ price.val.n < 0) \/ quantity.val < 0
             THEN Plan(NoCall,
                       BadRequest("Price and quantity must be positive values."))
             ELSE Plan([op |-> "insert_one",
                        doc |-> nbook(form, price.val, quantity.val, utcnow(now))],
                       Redirect("home", <<>>))

\* POST /add
add(form, now) ==
    IF \/ Falsy(form, "title") \/ Falsy(form, "author") \/ Falsy(form, "genre")
       \/ Falsy(form, "price") \/ Falsy(form, "quantity")
    THEN Plan(NoCall, BadRequest("All fields are required."))
    ELSE LET price == PyFloat(form, "price")
             quantity == PyInt(form, "quantity")
         IN  IF ~price.ok \/ ~quantity.ok
             THEN Plan(NoCall, BadRequest("Price and quantity must be numbers."))
             ELSE IF FloatLeqZero(price.val) \/ quantity.val <= 0
             THEN Plan(NoCall,
                       BadRequest("Price and quantity must be positive values."))
             ELSE Plan([op |-> "insert_one",
                        doc |-> nbook(form, price.val, quantity.val, utcnow(now))],
                       Redirect("home", <<>>))

\* GET /show_inventory: the assignment  list = list(books)  makes list a
\* local name of the function, so the call list(books) reads a local that
\* is not bound yet and raises UnboundLocalError after the cursor is made.
show_inventory ==
    Plan([op |-> "find_projected"], ServerError("UnboundLocalError"))

\* GET /book_detail/<book_id>
book_detail(book_id) ==
    IF ~ObjectId(book_id).ok THEN Plan(NoCall, ServerError(ObjectId(book_id).exc))
    ELSE Plan([op |-> "find_one", oid |-> ObjectId(book_id).val],
              Render("book_detail.html"))

\* The tail every edit handler shares: update_one with $set on one field,
\* then the redirect to the detail page of the same path segment.
SetField(book_id, field, value) ==
    IF ~ObjectId(book_id).ok THEN Plan(NoCall, ServerError(ObjectId(book_id).exc))
    ELSE Plan([op |-> "update_one", oid |-> ObjectId(book_id).val,
               field |-> field, value |-> value],
              Redirect("book_detail", book_id))

\* POST /edit_price/<book_id>: only ValueError is caught.
edit_price(book_id, form) ==
    LET price == PyFloat(form, "price")
    IN  IF ~price.ok /\ price.exc = "ValueError"
        THEN Plan(NoCall, BadRequest("Price must be numbers."))
        ELSE IF ~price.ok THEN Plan(NoCall, ServerError(price.exc))
        ELSE IF FloatLeqZero(price.val)
        THEN Plan(NoCall, BadRequest("Price must be a positive value."))
        ELSE SetField(book_id, "price", price.val)

\* POST /edit_quantity/<book_id>: only ValueError is caught.
edit_quantity(book_id, form) ==
    LET quantity == PyInt(form, "quantity")
    IN  IF ~quantity.ok /\ quantity.exc = "ValueError"
        THEN Plan(NoCall, BadRequest("Quantity must be numbers."))
        ELSE IF ~quantity.ok THEN Plan(NoCall, ServerError(quantity.exc))
        ELSE IF quantity.val <= 0
        THEN Plan(NoCall, BadRequest("Quantity must be a positive value."))
        ELSE SetField(book_id, "quantity", quantity.val)

\* POST /edit_title/<book_id>
edit_title(book_id, form) ==
    IF Falsy(form, "title") THEN Plan(NoCall, BadRequest("Title cannot be empty."))
    ELSE SetField(book_id, "title", form["title"])

\* POST /edit_genre/<book_id>
edit_genre(book_id, form) ==
    IF Falsy(form, "genre") THEN Plan(NoCall, BadRequest("Genre cannot be empty."))
    ELSE SetField(book_id, "genre", form["genre"])

\* The response once the store has answered: a rendered page shows what the
\* store returned (nothing when no call was made).
Finish(plan, db) ==
    IF plan.resp.kind = "render" /\ plan.call.op # "none"
    THEN [plan.resp EXCEPT !.data = DbResult(db, plan.call)]
    ELSE plan.resp

---------------------------------------------------------------------------
(* Requests and the texts they carry *)

Dune == <<"D","u","n","e">>

Emma == <<"E","m","m","a">>

Herbert == <<"H","e","r","b","e","r","t">>

Austen == <<"A","u","s","t","e","n">>

SciFi == <<"S","c","i","F","i">>

Novel == <<"N","o","v","e","l">>

\* Marks, while a form is being enumerated, a field the request leaves out.
Missing == <<"<missing>">>

FormFields == {"title", "author", "genre", "price", "quantity"}

\* The form a choice of field values stands for: the fields marked Missing
\* are not in it.
FormOf(g) == [k \in {x \in DOMAIN g : g[x] # Missing} |-> g[k]]

\* A path segment: a well-formed ObjectId text naming identifier n, or not.
WellFormed(n) == [hex |-> TRUE, n |-> n]

Malformed == [hex |-> FALSE, n |-> 0]

Request(route, book_id, form) ==
    [route |-> route, book_id |-> book_id, form |-> form]

\* Texts of the life-cycle specification.
LifePrices == {<<"9",".","9","9">>, <<"1","5",".","5","0">>, <<"n","a","n">>}

LifeQuantities == {<<"3">>, <<"7">>}

LifeBase ==
    [title |-> Dune, author |-> Herbert, genre |-> SciFi,
     price |-> <<"1","5",".","5","0">>, quantity |-> <<"3">>]

LifeFaults ==
    [title    |-> {Missing, <<>>},
     author   |-> {Missing, <<>>},
     genre    |-> {Missing, <<>>},
     price    |-> {<<"0">>, <<"a","b","c">>},
     quantity |-> {<<"0">>, <<"1",".","5">>}]

\* Every valid combination, and the base form with one field at fault.
LifeAddForms ==
    {FormOf(g) : g \in [title : {Dune, Emma}, author : {Herbert},
                        genre : {SciFi, Novel}, price : LifePrices,
                        quantity : LifeQuantities]}
    \cup {FormOf([LifeBase EXCEPT ![k] = v]) : <<k, v>> \in
            UNION {{<<f, x>> : x \in LifeFaults[f]} : f \in FormFields}}

LifeIds == {WellFormed(n) : n \in 1..MaxIds} \cup {Malformed}

\* A form of one field, or the empty form.
OneField(k, values) == {FormOf([x \in {k} |-> v]) : v \in values}

LifePriceForms == OneField("price", LifePrices \cup {<<"0">>, Missing})

LifeQuantityForms == OneField("quantity", LifeQuantities \cup {<<"0">>, Missing})

LifeTitleForms == OneField("title", {Dune, Emma, <<>>})

LifeGenreForms == OneField("genre", {SciFi, Novel, <<>>})

---------------------------------------------------------------------------
(* Handling one request from arrival to response *)

Inserts(plan) == plan.call.op = "insert_one"

\* The time the handler of r reads: only add calls utcnow().
TimeRead(r, now) == IF r.route = "add" THEN now ELSE 0

\* The plan of a request that arrived at time now is run against the
\* collection and the request is answered.
Answer(r, plan, now) ==
    /\ pc' = "replied"
    /\ books' = DbApply(books, plan.call, nextId)
    /\ nextId' = IF Inserts(plan) THEN nextId + 1 ELSE nextId
    /\ req' = [route |-> r.route, book_id |-> r.book_id, form |-> r.form,
               now |-> TimeRead(r, now), call |-> plan.call]
    /\ resp' = Finish(plan, books)
    /\ pre' = books

\* The whole handler, from the arrival of request r to its response, plan
\* being the plan of the handler the URL map dispatches r to.  The clock is
\* observed only through date_added; it moves on when a document has been
\* stamped.
Serve(r, plan) ==
    /\ Answer(r, plan, clock)
    /\ clock' = IF Inserts(plan) THEN clock + 1 ELSE clock

\* Before any request.
NoRequest ==
    [route |-> "none", book_id |-> Malformed, form |-> <<>>, now |-> 0,
     call |-> NoCall]

NoResponse == [status |-> 0, kind |-> "none", what |-> "", data |-> <<>>]

\* The response has gone out; the server waits for the next request.
Listen ==
    /\ pc = "replied"
    /\ pc' = "idle"
    /\ req' = NoRequest
    /\ resp' = NoResponse
    /\ pre' = <<>>
    /\ UNCHANGED <<books, nextId, clock, inflight, added, removed>>

Init ==
    /\ books = <<>>
    /\ nextId = 1
    /\ clock = 0
    /\ req = NoRequest
    /\ resp = NoResponse
    /\ pre = <<>>
    /\ pc = "idle"
    /\ inflight = <<>>
    /\ added = {}
    /\ removed = {}

Aside == UNCHANGED <<inflight, added, removed>>

ReqHome ==
    pc = "idle" /\ Serve(Request("home", Malformed, <<>>), home) /\ Aside

ReqAdd ==
    /\ pc = "idle"
    /\ \E form \in LifeAddForms :
        /\ Inserts(add(form, clock)) => nextId <= MaxIds
        /\ Serve(Request("add", Malformed, form), add(form, clock))
        /\ Aside

ReqDelete ==
    /\ pc = "idle"
    /\ \E id \in LifeIds :
        Serve(Request("delete", id, <<>>), delete(id)) /\ Aside

ReqShowInventory ==
    /\ pc = "idle"
    /\ Serve(Request("show_inventory", Malformed, <<>>), show_inventory)
    /\ Aside

ReqBookDetail ==
    /\ pc = "idle"
    /\ \E id \in LifeIds :
        Serve(Request("book_detail", id, <<>>), book_detail(id)) /\ Aside

ReqEditPrice ==
    /\ pc = "idle"
    /\ \E id \in LifeIds, form \in LifePriceForms :
        Serve(Request("edit_price", id, form), edit_price(id, form)) /\ Aside

ReqEditQuantity ==
    /\ pc = "idle"
    /\ \E id \in LifeIds, form \in LifeQuantityForms :
        Serve(Request("edit_quantity", id, form), edit_quantity(id, form)) /\ Aside

ReqEditTitle ==
    /\ pc = "idle"
    /\ \E id \in LifeIds, form \in LifeTitleForms :
        Serve(Request("edit_title", id, form), edit_title(id, form)) /\ Aside

ReqEditGenre ==
    /\ pc = "idle"
    /\ \E id \in LifeIds, form \in LifeGenreForms :
        Serve(Request("edit_genre", id, form), edit_genre(id, form)) /\ Aside

Next ==
    \/ ReqHome
    \/ ReqAdd
    \/ ReqDelete
    \/ ReqShowInventory
    \/ ReqBookDetail
    \/ ReqEditPrice
    \/ ReqEditQuantity
    \/ ReqEditTitle
    \/ ReqEditGenre
    \/ Listen

Spec == Init /\ [][Next]_vars

---------------------------------------------------------------------------
(* One request with inputs of every shape, against a catalogue *)

Book1 ==
    [title |-> Dune, author |-> Herbert, genre |-> SciFi,
     price |-> Normal(155, 1), quantity |-> 3, date_added |-> DateTime(Today, 0)]

Book2 ==
    [title |-> Emma, author |-> Austen, genre |-> Novel,
     price |-> Normal(999, 2), quantity |-> 7, date_added |-> DateTime(Today, 1)]

\* Collections two valid adds and a delete lead to.
Catalogues == {<<>>, 1 :> Book1, 1 :> Book1 @@ 2 :> Book2, 2 :> Book2}

OnceTitles == {Missing, <<>>, <<" ">>, Emma}

OnceAuthors == {Missing, <<>>, Austen}

OnceGenres == {Missing, <<>>, Novel}

OncePrices ==
    {Missing, <<>>, <<"a","b","c">>, <<"0">>, <<"-","5">>, <<"-","0",".","0">>,
     <<"9",".","9","9">>, <<"1","5",".","5","0">>, <<" ","7"," ">>,
     <<"n","a","n">>, <<"i","n","f">>, <<"-","i","n","f">>}

OnceQuantities ==
    {Missing, <<>>, <<"a","b","c">>, <<"0">>, <<"-","2">>, <<"3">>,
     <<" ","7"," ">>, <<"1",".","5">>, <<"n","a","n">>}

OnceAddForms ==
    {FormOf(g) : g \in [title : OnceTitles, author : OnceAuthors,
                        genre : OnceGenres, price : OncePrices,
                        quantity : OnceQuantities]}

\* Identifiers 1 and 2 have been handed out; 3 never was.
OnceIds == {WellFormed(1), WellFormed(2), WellFormed(3), Malformed}

SearchTitles ==
    {Missing, <<>>, <<"u","n">>, <<"d","U">>, <<"e">>, <<"x">>, <<".">>,
     <<"D",".","n">>}

SearchAuthors == {Missing, <<>>, <<"E","R">>, <<"a","u","s">>}

SearchGenres == {Missing, <<>>, <<"n","o","v">>}

SearchDates ==
    {Missing, <<>>, <<"2","0","2","4","-","0","1","-","0","1">>,
     <<"0","1","/","0","1","/","2","0","2","4">>,
     <<"2","0","2","4","-","0","2","-","3","0">>}

SearchPrices ==
    {Missing, <<>>, <<"1","0">>, <<"1","5",".","5">>, <<"a","b","c">>}

SearchArgs ==
    {FormOf(g) : g \in [title : SearchTitles, author : SearchAuthors,
                        genre : SearchGenres, date_added : SearchDates,
                        price : SearchPrices]}

InitOnce ==
    /\ books \in Catalogues
    /\ nextId = 3
    /\ clock = 2
    /\ req = NoRequest
    /\ resp = NoResponse
    /\ pre = <<>>
    /\ pc = "idle"
    /\ inflight = <<>>
    /\ added = {}
    /\ removed = {}

OnceHome ==
    pc = "idle" /\ Serve(Request("home", Malformed, <<>>), home) /\ Aside

OnceSearch ==
    /\ pc = "idle"
    /\ \E args \in SearchArgs :
        Serve(Request("search", Malformed, args), search(args)) /\ Aside

OnceAdd ==
    /\ pc = "idle"
    /\ \E form \in OnceAddForms :
        Serve(Request("add", Malformed, form), add(form, clock)) /\ Aside

OnceDelete ==
    /\ pc = "idle"
    /\ \E id \in OnceIds :
        Serve(Request("delete", id, <<>>), delete(id)) /\ Aside

OnceShowInventory ==
    /\ pc = "idle"
    /\ Serve(Request("show_inventory", Malformed, <<>>), show_inventory)
    /\ Aside

OnceBookDetail ==
    /\ pc = "idle"
    /\ \E id \in OnceIds :
        Serve(Request("book_detail", id, <<>>), book_detail(id)) /\ Aside

OnceEditPrice ==
    /\ pc = "idle"
    /\ \E id \in OnceIds, form \in OneField("price", OncePrices) :
        Serve(Request("edit_price", id, form), edit_price(id, form)) /\ Aside

OnceEditQuantity ==
    /\ pc = "idle"
    /\ \E id \in OnceIds, form \in OneField("quantity", OnceQuantities) :
        Serve(Request("edit_quantity", id, form), edit_quantity(id, form)) /\ Aside

OnceEditTitle ==
    /\ pc = "idle"
    /\ \E id \in OnceIds, form \in OneField("title", OnceTitles) :
        Serve(Request("edit_title", id, form), edit_title(id, form)) /\ Aside

OnceEditGenre ==
    /\ pc = "idle"
    /\ \E id \in OnceIds, form \in OneField("genre", OnceGenres) :
        Serve(Request("edit_genre", id, form), edit_genre(id, form)) /\ Aside

NextOnce ==
    \/ OnceHome
    \/ OnceSearch
    \/ OnceAdd
    \/ OnceDelete
    \/ OnceShowInventory
    \/ OnceBookDetail
    \/ OnceEditPrice
    \/ OnceEditQuantity
    \/ OnceEditTitle
    \/ OnceEditGenre

SpecOnce == InitOnce /\ [][NextOnce]_vars

---------------------------------------------------------------------------
(* Requests handled concurrently.  Every route that calls the store takes  *)
(* part; the texts are few: one valid and one invalid add form, and one    *)
(* value for each edit, which for all but the price is the value the add   *)
(* form carries.                                                           *)

\* The threads of the HTTP server that handle requests.
Workers == {"w1", "w2"}

Idle == [busy |-> FALSE]

ConcIds == {WellFormed(n) : n \in 1..MaxIds}

ConcAddForms == {FormOf(LifeBase), FormOf([LifeBase EXCEPT !["title"] = Missing])}

InitConc ==
    /\ books = <<>>
    /\ nextId = 1
    /\ clock = 0
    /\ req = NoRequest
    /\ resp = NoResponse
    /\ pre = <<>>
    /\ pc = "idle"
    /\ inflight = [w \in Workers |-> Idle]
    /\ added = {}
    /\ removed = {}

\* Worker w takes request r and runs its handler up to the store call: the
\* form is read and validated and, in add, the clock is read.
Accept(w, r, plan) ==
    /\ ~inflight[w].busy
    /\ inflight' = [inflight EXCEPT ![w] =
                        [busy |-> TRUE, r |-> r, now |-> TimeRead(r, clock),
                         plan |-> plan]]
    /\ clock' = IF Inserts(plan) THEN clock + 1 ELSE clock
    /\ UNCHANGED <<books, nextId, req, resp, pre, pc, added, removed>>

\* Worker w's store call takes effect, atomically, and the handler returns.
Commit ==
    /\ pc = "idle"
    /\ \E w \in Workers :
        /\ inflight[w].busy
        /\ Answer(inflight[w].r, inflight[w].plan, inflight[w].now)
        /\ inflight' = [inflight EXCEPT ![w] = Idle]
        /\ added' = IF Inserts(inflight[w].plan) THEN added \cup {nextId} ELSE added
        /\ removed' = IF inflight[w].plan.call.op = "delete_one"
                      THEN removed \cup ({inflight[w].plan.call.oid} \cap added)
                      ELSE removed
        /\ UNCHANGED clock

ConcSearch ==
    /\ pc = "idle"
    /\ \E w \in Workers, args \in OneField("title", {<<"u","n">>}) :
            Accept(w, Request("search", Malformed, args), search(args))

ConcAdd ==
    /\ pc = "idle"
    /\ \E w \in Workers, form \in ConcAddForms :
            /\ Inserts(add(form, clock)) => clock < MaxIds
            /\ Accept(w, Request("add", Malformed, form), add(form, clock))

ConcDelete ==
    /\ pc = "idle"
    /\ \E w \in Workers, id \in ConcIds :
            Accept(w, Request("delete", id, <<>>), delete(id))

ConcShowInventory ==
    /\ pc = "idle"
    /\ \E w \in Workers :
            Accept(w, Request("show_inventory", Malformed, <<>>), show_inventory)

ConcBookDetail ==
    /\ pc = "idle"
    /\ \E w \in Workers, id \in ConcIds :
            Accept(w, Request("book_detail", id, <<>>), book_detail(id))

ConcEditPrice ==
    /\ pc = "idle"
    /\ \E w \in Workers, id \in ConcIds,
           form \in OneField("price", {<<"9",".","9","9">>}) :
            Accept(w, Request("edit_price", id, form), edit_price(id, form))

ConcEditQuantity ==
    /\ pc = "idle"
    /\ \E w \in Workers, id \in ConcIds, form \in OneField("quantity", {<<"3">>}) :
            Accept(w, Request("edit_quantity", id, form), edit_quantity(id, form))

ConcEditTitle ==
    /\ pc = "idle"
    /\ \E w \in Workers, id \in ConcIds, form \in OneField("title", {Dune}) :
            Accept(w, Request("edit_title", id, form), edit_title(id, form))

ConcEditGenre ==
    /\ pc = "idle"
    /\ \E w \in Workers, id \in ConcIds, form \in OneField("genre", {SciFi}) :
            Accept(w, Request("edit_genre", id, form), edit_genre(id, form))

NextConc ==
    \/ ConcSearch
    \/ ConcAdd
    \/ ConcDelete
    \/ ConcShowInventory
    \/ ConcBookDetail
    \/ ConcEditPrice
    \/ ConcEditQuantity
    \/ ConcEditTitle
    \/ ConcEditGenre
    \/ Commit
    \/ Listen

SpecConc == InitConc /\ [][NextConc]_vars

---------------------------------------------------------------------------
(* Properties *)

\* A request of the given route has just been answered.
Handled(route) == pc = "replied" /\ req.route = route

TextFields == {"title", "author", "genre"}

EditRoutes == {"edit_price", "edit_quantity", "edit_title", "edit_genre"}

\* The field an edit route sets.
FieldOf(route) ==
    CASE route = "edit_price"    -> "price"
      [] route = "edit_quantity" -> "quantity"
      [] route = "edit_title"    -> "title"
      [] route = "edit_genre"    -> "genre"

\* text contains sub, letter case ignored.
Contains(text, sub) ==
    \E o \in 0..(Len(text) - Len(sub)) :
        \A i \in 1..Len(sub) : Lower(sub[i]) = Lower(text[o + i])

\* A book as the data model wants it.
WellFormedBook(b) ==
    /\ FloatPositive(b.price)
    /\ b.quantity > 0
    /\ b.title # <<>> /\ b.author # <<>> /\ b.genre # <<>>

\* C1: every book held in the store has price > 0, quantity > 0 and
\* non-empty title, author and genre, whatever requests were made.
C1_StoredBooksWellFormed == \A i \in DOMAIN books : WellFormedBook(books[i])

\* An add form the claim C2 wants rejected: a field missing or empty, a
\* price or quantity that is no number, or one that is not positive.
AddFormInvalid(form) ==
    \/ \E k \in FormFields : k \notin DOMAIN form \/ form[k] = <<>>
    \/ ~FloatOfText(form["price"]).ok
    \/ ~IntOfText(form["quantity"]).ok
    \/ FloatLeqZero(FloatOfText(form["price"]).val)
    \/ IntOfText(form["quantity"]).val <= 0

\* C2: an add request with a missing, empty, non-numeric or non-positive
\* field is answered 400 and leaves the stored books exactly as they were.
C2_InvalidAddRejected ==
    (Handled("add") /\ AddFormInvalid(req.form))
        => (resp.status = 400 /\ books = pre)

\* C2's case: a non-positive price, all else valid, against a non-empty store.
C2_Witness ==
    /\ Handled("add")
    /\ pre # <<>>
    /\ \A k \in FormFields : ~Falsy(req.form, k)
    /\ FloatOfText(req.form["price"]).ok
    /\ IntOfText(req.form["quantity"]).ok
    /\ IntOfText(req.form["quantity"]).val > 0
    /\ FloatLeqZero(FloatOfText(req.form["price"]).val)
    /\ resp.status = 400

\* The single field of an edit request fails validation.
EditFieldInvalid(route, form) ==
    LET k == FieldOf(route)
    IN  \/ k \notin DOMAIN form
        \/ form[k] = <<>>
        \/ route = "edit_price"
            /\ (~FloatOfText(form[k]).ok \/ FloatLeqZero(FloatOfText(form[k]).val))
        \/ route = "edit_quantity"
            /\ (~IntOfText(form[k]).ok \/ IntOfText(form[k]).val <= 0)

\* C3: every edit request whose field fails validation (missing, empty,
\* non-numeric, non-positive) is answered 400 and the record is unchanged.
C3_InvalidEditIs400 ==
    (pc = "replied" /\ req.route \in EditRoutes
        /\ EditFieldInvalid(req.route, req.form))
        => (resp.status = 400 /\ books = pre)

\* C4: a successful edit of one field changes only that field of the
\* record with that id; every other field, every other record and the
\* number of records stay as they were.
C4_EditTouchesOneField ==
    (pc = "replied" /\ req.route \in EditRoutes /\ resp.status = 302)
        => /\ DOMAIN books = DOMAIN pre
           /\ \A i \in DOMAIN pre :
                \A k \in DOMAIN pre[i] :
                    (i # req.book_id.n \/ k # FieldOf(req.route))
                        => books[i][k] = pre[i][k]

\* C4's case: a price edit changed the price of one of two records.
C4_Witness ==
    /\ Handled("edit_price")
    /\ resp.status = 302
    /\ Cardinality(DOMAIN pre) = 2
    /\ req.book_id.n \in DOMAIN pre
    /\ books[req.book_id.n].price # pre[req.book_id.n].price

\* An add form with non-empty texts, price > 0 and quantity > 0.
AddFormValid(form) ==
    /\ \A k \in FormFields : k \in DOMAIN form /\ form[k] # <<>>
    /\ FloatOfText(form["price"]).ok
    /\ IntOfText(form["quantity"]).ok
    /\ FloatPositive(FloatOfText(form["price"]).val)
    /\ IntOfText(form["quantity"]).val > 0

\* The record a valid add form describes, stamped at time now.
Submitted(form, now) ==
    [title      |-> form["title"],
     author     |-> form["author"],
     genre      |-> form["genre"],
     price      |-> FloatOfText(form["price"]).val,
     quantity   |-> IntOfText(form["quantity"]).val,
     date_added |-> DateTime(Today, now)]

\* C5: after a valid add the store holds exactly one new record, which the
\* detail lookup on its identifier returns with the submitted values and
\* the request's time, and the response is a redirect to /home.
C5_ValidAddCreatesRecord ==
    (Handled("add") /\ AddFormValid(req.form))
        => /\ \E i \in DOMAIN books \ DOMAIN pre :
                /\ DOMAIN books = DOMAIN pre \cup {i}
                /\ DbResult(books, book_detail(WellFormed(i)).call)
                       = <<Submitted(req.form, req.now)>>
           /\ \A j \in DOMAIN pre : books[j] = pre[j]
           /\ resp = Redirect("home", <<>>)

\* C5's case: a valid add with a padded quantity arrived at a non-empty store.
C5_Witness ==
    /\ Handled("add")
    /\ AddFormValid(req.form)
    /\ req.form["quantity"] = <<" ","7"," ">>
    /\ pre # <<>>
    /\ Cardinality(DOMAIN books) = Cardinality(DOMAIN pre) + 1

\* C6: GET /show_inventory returns one entry for every stored book,
\* unfiltered, carrying that book's title and quantity.
C6_InventoryListsEveryBook ==
    Handled("show_inventory")
        => /\ resp.status = 200
           /\ DOMAIN resp.data = DOMAIN pre
           /\ \A i \in DOMAIN pre :
                resp.data[i] = [title |-> pre[i].title, quantity |-> pre[i].quantity]

\* C7: deleting a well-formed identifier removes exactly the record with
\* that identifier (none when there is no such record), a listing made
\* afterwards does not include it, the response is a redirect to /home, and
\* deleting it again changes nothing.
C7_DeleteRemovesExactlyOne ==
    (Handled("delete") /\ req.book_id.hex)
        => /\ DOMAIN books = DOMAIN pre \ {req.book_id.n}
           /\ \A j \in DOMAIN books : books[j] = pre[j]
           /\ req.book_id.n \notin DOMAIN DbResult(books, show_inventory.call)
           /\ resp = Redirect("home", <<>>)
           /\ DbApply(books, delete(req.book_id).call, nextId) = books

\* C7's case: one of two stored records was deleted.
C7_Witness ==
    /\ Handled("delete")
    /\ Cardinality(DOMAIN pre) = 2
    /\ req.book_id.n \in DOMAIN pre
    /\ Cardinality(DOMAIN books) = 1

\* C7's other case: the identifier matched no record.
C7_WitnessUnknown ==
    /\ Handled("delete")
    /\ req.book_id.hex
    /\ pre # <<>>
    /\ req.book_id.n \notin DOMAIN pre

SearchFields == {"title", "author", "genre", "date_added", "price"}

\* C8: a search that supplies none of its parameters, or only empty ones,
\* returns an empty result for any store and issues no query.
C8_EmptySearchMatchesNothing ==
    (Handled("search") /\ \A k \in SearchFields : Falsy(req.form, k))
        => /\ resp.status = 200
           /\ resp.data = <<>>
           /\ req.call.op = "none"

\* C8's case: parameters present but empty, against a store of two books.
C8_Witness ==
    /\ Handled("search")
    /\ DOMAIN req.form = SearchFields
    /\ \A k \in SearchFields : req.form[k] = <<>>
    /\ Cardinality(DOMAIN pre) = 2

\* A stored book meets every condition a search supplies: the text
\* parameters are contained in the field in any letter case, the price is
\* at most the supplied number, the date is the supplied day's datetime.
MeetsEvery(doc, args) ==
    /\ \A k \in TextFields : ~Falsy(args, k) => Contains(doc[k], args[k])
    /\ ~Falsy(args, "price")
        => FloatLeq(doc.price, FloatOfText(args["price"]).val)
    /\ ~Falsy(args, "date_added")
        => doc.date_added = strptime(args["date_added"]).val

\* C9: a search with at least one well-formed parameter returns exactly the
\* stored books that meet every supplied condition at once.
C9_SearchIsConjunction ==
    (Handled("search") /\ resp.status = 200
        /\ \E k \in SearchFields : ~Falsy(req.form, k))
        => /\ DOMAIN resp.data = {i \in DOMAIN pre : MeetsEvery(pre[i], req.form)}
           /\ \A i \in DOMAIN resp.data : resp.data[i] = pre[i]


\* C10: under any interleaving of concurrently handled requests, a record
\* is in the store exactly when an add created it and no delete has been
\* applied to it since; no other request creates or removes a record.
C10_OnlyAddCreatesOnlyDeleteRemoves == DOMAIN books = added \ removed

\* C10's case: an edit has been applied to an identifier that had been
\* deleted, while another request was still in flight.
C10_Witness ==
    /\ pc = "replied"
    /\ req.route \in EditRoutes
    /\ resp.status = 302
    /\ req.book_id.n \in removed
    /\ \E w \in Workers : inflight[w].busy

=============================================================================
